---- MODULE Spec2Model ----
(***************************************************************************)
(* Model of src/classifiers.py: the three classifier variants (RNN, CNN,   *)
(* CamembertClassifier), whose forward passes are modelled on tensor       *)
(* shapes, and the train function, modelled as a sequential state machine  *)
(* with one action per statement group of the epoch / batch double loop.   *)
(*                                                                         *)
(* Collaborators of train (optimizer, scheduler, criterion, early-stopping *)
(* monitor, data loaders) are modelled by the calls they receive and the   *)
(* values they return.  A data loader is a torch DataLoader over a         *)
(* map-style dataset: n examples cut into batches of batch_size, the last  *)
(* batch holding the remainder, the same batches on every epoch.           *)
(* The calls explored are those that iterate over at most MaxExampleRuns   *)
(* examples, all epochs together.                                          *)
(* The forward pass is modelled by the shape of the scores and by how many *)
(* examples of the batch they misclassify: any number of them, chosen      *)
(* anew at every forward call.                                             *)
(* The criterion is the count of misclassified examples, so losses are     *)
(* naturals, and accuracies are exact rationals.  Printing is omitted (it  *)
(* changes no state); the guards that decide it are evaluated.            *)
(***************************************************************************)
EXTENDS Integers, Sequences, FiniteSets, Bags, TLC

\* ------------------------------------------------------------------ bounds
MaxEpochs    == 3   \* n_epochs ranges over 0..MaxEpochs
MaxExamples  == 2   \* examples in a loader's dataset: 0..MaxExamples
MaxBatchSize == 2   \* loader.batch_size: 1..MaxBatchSize
MaxPatience  == 1   \* earl_stopping_patience: 1..MaxPatience
MaxPrintEvery == 1  \* print_every, print_validation_every: 0..MaxPrintEvery
MaxExampleRuns == 6 \* examples a call of train iterates over, all epochs together
MaxDim       == 2   \* layer widths, layer counts, filter counts, kernel heights
MaxSeqLen    == 2   \* tokens per example in the forward-pass inputs
MaxFilters   == 2   \* length of the CNN's num_filters / filter_sizes lists

\* -------------------------------------------------------- program constants
NumClasses == 5     \* output width of CNN.fc1 and CamembertClassifier.cls_layer

VARIABLES
    args,                \* the arguments train was called with
    pc,                  \* position in train
    error,               \* exception that ended train, "" if none
    training,            \* model.training (True after model.train(), False after model.eval())
    ep,                  \* epoch loop variable
    it,                  \* loop variable shared by both enumerate loops, Unbound before the first
    pos,                 \* number of batches the running enumerate has produced
    cur,                 \* number of examples in the batch in hand
    output,              \* scores of the last forward pass: shape, misclassified examples
    running_loss, running_accuracy,
    h, val_h,            \* hidden-state shapes of the rnn variant, <<>> when not set
    n_batch_validation, loss_validation, accuracy_validation,
    hist, val_hist,
    early_stopping,      \* the EarlyStopping monitor
    optimizer,           \* calls received by the optimizer
    scheduler_steps,     \* arguments scheduler.step was called with, in order
    model_calls,         \* forward and backward passes executed, and their modes
    batch_log,           \* calls made while processing the batch in hand, in order
    processed,           \* loader batches whose loop body ran to its end
    epoch_log,           \* bags of the values the criterion / accuracy produced this epoch
    plotted,             \* what plt received: the lengths of the plotted series
    fwd                  \* a single forward call on a freshly built model (forward-pass specification)

trainvars == <<args, pc, error, training, ep, it, pos, cur, output, running_loss, running_accuracy,
               h, val_h, n_batch_validation, loss_validation, accuracy_validation,
               hist, val_hist, early_stopping, optimizer, scheduler_steps, model_calls,
               batch_log, processed, epoch_log, plotted>>
vars == <<trainvars, fwd>>

\* ------------------------------------------------------------- arithmetic
Unbound == -1

Min(a, b) == IF a < b THEN a ELSE b

RECURSIVE GCD(_, _)
GCD(a, b) == IF b = 0 THEN a ELSE GCD(b, a % b)

\* A rational num/den in lowest terms; <<1,0>> is inf and <<0,0>> is nan.
Rat(n, d) == LET g == GCD(n, d) IN IF g = 0 THEN <<0, 0>> ELSE <<n \div g, d \div g>>
Inf == <<1, 0>>
NaN == <<0, 0>>
Zero == <<0, 1>>

RatAdd(p, q) ==
    IF p[2] = 0 \/ q[2] = 0
    THEN (IF p = NaN \/ q = NaN THEN NaN ELSE Inf)
    ELSE Rat(p[1] * q[2] + q[1] * p[2], p[2] * q[2])

\* tensor / k for a float tensor and a Python int k >= 0: never raises, x/0 is inf or nan.
TensorDiv(p, k) ==
    IF p[2] = 0 THEN p
    ELSE IF k = 0 THEN (IF p[1] = 0 THEN NaN ELSE Inf)
    ELSE Rat(p[1], p[2] * k)

\* ------------------------------------------------------------ data loaders
NumBatches(loader) == (loader.n + loader.batch_size - 1) \div loader.batch_size
BatchLen(loader, i) == Min(loader.batch_size, loader.n - i * loader.batch_size)

Loaders == [n : 0..MaxExamples, batch_size : 1..MaxBatchSize]

\* ------------------------------------------------------------ tensor shapes
\* A tensor is modelled by its shape, a sequence of sizes; Err is the shape of
\* "the operation raised RuntimeError", and every operation propagates it.
Err == <<-1>>

RECURSIVE SeqSum(_)
SeqSum(s) == IF s = <<>> THEN 0 ELSE s[1] + SeqSum(Tail(s))

RECURSIVE Numel(_)
Numel(s) == IF s = <<>> THEN 1 ELSE s[1] * Numel(Tail(s))

\* nn.Embedding: appends the embedding width.
Embedding(s, dim) == IF s = Err THEN Err ELSE Append(s, dim)

\* nn.Linear(in_features, out_features): the last size must be in_features.
Linear(s, in_features, out_features) ==
    IF s = Err \/ s[Len(s)] # in_features THEN Err
    ELSE [s EXCEPT ![Len(s)] = out_features]

\* x.unsqueeze(d) and x.squeeze(d), d zero-based; squeeze leaves a size # 1 alone.
Unsqueeze(s, d) ==
    IF s = Err THEN Err ELSE SubSeq(s, 1, d) \o <<1>> \o SubSeq(s, d + 1, Len(s))
Squeeze(s, d) ==
    IF s = Err THEN Err
    ELSE IF s[d + 1] = 1 THEN SubSeq(s, 1, d) \o SubSeq(s, d + 2, Len(s))
    ELSE s

\* nn.Conv2d(in_ch, out_ch, (kh, kw)) on (B, C, H, W), stride 1, no padding.
Conv2d(s, in_ch, out_ch, kh, kw) ==
    IF s = Err \/ Len(s) # 4 THEN Err
    ELSE IF s[2] # in_ch \/ s[3] < kh \/ s[4] < kw THEN Err
    ELSE <<s[1], out_ch, s[3] - kh + 1, s[4] - kw + 1>>

\* F.max_pool1d(x, k) on (B, C, W): stride k.
MaxPool1d(s, k) ==
    IF s = Err \/ Len(s) # 3 THEN Err
    ELSE IF k < 1 \/ s[3] < k THEN Err
    ELSE <<s[1], s[2], (s[3] - k) \div k + 1>>

\* torch.cat(list, 1) of 2-d tensors: the first sizes must agree.
Cat1(xs) ==
    IF xs = <<>> \/ \E i \in 1..Len(xs) : xs[i] = Err \/ Len(xs[i]) # 2 \/ xs[i][1] # xs[1][1]
    THEN Err
    ELSE <<xs[1][1], SeqSum([i \in 1..Len(xs) |-> xs[i][2]])>>

\* x.view(b, -1)
View(s, b) ==
    IF s = Err \/ b = 0 \/ Numel(s) % b # 0 THEN Err ELSE <<b, Numel(s) \div b>>

\* -------------------------------------------------------------------- RNN
\* RNN.init_hidden: a pair (h_0, c_0) of zero tensors.
RNN_init_hidden(m, batch_size) ==
    << <<m.n_layers, batch_size, m.hidden_dim>>, <<m.n_layers, batch_size, m.hidden_dim>> >>

\* nn.LSTM(embedding_dim, hidden_dim, n_layers, batch_first=True) accepts a hidden
\* pair only of shape (n_layers, batch, hidden_dim), batch being that of its input.
LSTMAccepts(m, embeds, hidden) ==
    /\ embeds # Err
    /\ Len(embeds) = 3
    /\ embeds[3] = m.embedding_dim
    /\ hidden = RNN_init_hidden(m, embeds[1])

\* RNN.forward(x, hidden): [out, hidden], out = Err when the LSTM raises.
RNN_forward(m, x, hidden) ==
    LET batch_size == x[1]
        embeds     == Embedding(x, m.embedding_dim)
        ok         == LSTMAccepts(m, embeds, hidden)
        lstm_out   == IF ok THEN <<embeds[1], embeds[2], m.hidden_dim>> ELSE Err
        last       == IF lstm_out = Err THEN Err ELSE <<lstm_out[1], lstm_out[3]>>
        fc         == Linear(last, m.hidden_dim, m.output_size)
    IN  [out    |-> View(fc, batch_size),
         hidden |-> IF ok THEN RNN_init_hidden(m, embeds[1]) ELSE hidden]

\* -------------------------------------------------------------------- CNN
\* zip(num_filters, filter_sizes): one Conv2d(1, n, (K, embed_size)) per pair.
CNN_convs1(m) ==
    [i \in 1..Min(Len(m.num_filters), Len(m.filter_sizes)) |->
        [n |-> m.num_filters[i], K |-> m.filter_sizes[i]]]

\* in_features of fc1 = nn.Linear(num_filters[-1]*len(filter_sizes), 5)
CNN_fc1_in(m) == m.num_filters[Len(m.num_filters)] * Len(m.filter_sizes)

\* width of torch.cat(x, 1) in CNN.forward
CNN_cat_width(m) == SeqSum([i \in 1..Len(CNN_convs1(m)) |-> CNN_convs1(m)[i].n])

CNN_forward(m, x) ==
    LET emb    == Unsqueeze(Embedding(x, m.embed_size), 1)
        convs  == CNN_convs1(m)
        conved == [i \in 1..Len(convs) |->
                      Squeeze(Conv2d(emb, 1, convs[i].n, convs[i].K, m.embed_size), 3)]
        pooled == [i \in 1..Len(convs) |->
                      IF conved[i] = Err THEN Err
                      ELSE Squeeze(MaxPool1d(conved[i], conved[i][3]), 2)]
    IN  Linear(Cat1(pooled), CNN_fc1_in(m), NumClasses)

\* ---------------------------------------------------- CamembertClassifier
\* self.encoder(seq, attention_mask) returns (cont_reps, pooled, attentions);
\* cont_reps has shape (B, L, hidden_size) and cls_layer is Linear(hidden_size, 5).
Camembert_forward(m, seq) ==
    LET cont_reps == Append(seq, m.hidden_size)
        cls_rep   == <<cont_reps[1], cont_reps[3]>>
    IN  Linear(cls_rep, m.hidden_size, NumClasses)

\* ------------------------------------------------------------------ train
\* The model handed to train: one well-formed instance of the class model_type
\* names (for an unsupported model_type the class is never looked at).
SeqLen == MaxSeqLen
TrainedRNN  == [output_size |-> NumClasses, embedding_dim |-> MaxDim,
                hidden_dim |-> MaxDim, n_layers |-> MaxDim]
TrainedCNN  == [embed_size |-> MaxDim, num_filters |-> <<MaxDim, MaxDim>>,
                filter_sizes |-> <<1, SeqLen>>]
TrainedBert == [hidden_size |-> MaxDim]

ModelTypes == {"bert", "rnn", "cnn", "svm"}

\* The examples a call with arguments a iterates over when every epoch runs to its end.
ExampleRuns(a) == a.n_epochs * (a.train_loader.n + a.val_loader.n)

\* The calls of train; earl_stopping_patience is read only when early stopping is
\* activated, so one value stands for all of them when it is not.
Args ==
    {a \in [model_type : ModelTypes,
            n_epochs : 0..MaxEpochs,
            activate_early_stopping : BOOLEAN,
            has_scheduler : BOOLEAN,            \* FALSE: scheduler is None
            train_loader : Loaders,
            val_loader : Loaders,
            print_every : 0..MaxPrintEvery,
            print_validation_every : 0..MaxPrintEvery,
            earl_stopping_patience : 1..MaxPatience] :
        /\ a.activate_early_stopping \/ a.earl_stopping_patience = 1
        /\ ExampleRuns(a) <= MaxExampleRuns}

\* EarlyStopping(patience): the monitor of utils.pytorchtools.
EarlyStopping(patience) ==
    [patience |-> patience, has_best |-> FALSE, best_score |-> 0, counter |-> 0,
     early_stop |-> FALSE, calls |-> 0]
\* activate_early_stopping false: no monitor is built.
NoEarlyStopping == EarlyStopping(0)

\* early_stopping(val_loss, model): the score is -val_loss; an epoch whose score is
\* below the best seen does not improve; patience such epochs in a row signal stop.
EarlyStopping_call(es, val_loss) ==
    LET score == 0 - val_loss
        seen  == [es EXCEPT !.calls = @ + 1]
    IN  IF ~es.has_best
        THEN [seen EXCEPT !.has_best = TRUE, !.best_score = score]
        ELSE IF score < es.best_score
        THEN [seen EXCEPT !.counter = @ + 1,
                          !.early_stop = (es.counter + 1 >= es.patience) \/ es.early_stop]
        ELSE [seen EXCEPT !.best_score = score, !.counter = 0]

NoHidden == <<>>
NoOutput == [shape |-> <<>>, wrong |-> 0]
EmptyLog == [train_loss |-> EmptyBag, train_accuracy |-> EmptyBag,
             val_loss |-> EmptyBag, val_accuracy |-> EmptyBag]

\* How many examples of a batch of b can have an arg-max score that is not their
\* label: any number of them.
Misclassified(b) == 0..b

\* criterion(output, labels): the number of examples output misclassifies.
Criterion(out) == out.wrong

\* torch.sum(torch.argmax(output,dim=1)==labels)/float(labels.size(0))
Accuracy(out, size) == Rat(size - out.wrong, size)

\* Lines 92-99: the state of train before the epoch loop.
TrainInit(a) ==
    /\ args = a
    /\ pc = "epoch"
    /\ error = ""
    /\ training = TRUE
    /\ ep = 0
    /\ it = Unbound
    /\ pos = 0
    /\ cur = 0
    /\ output = NoOutput
    /\ running_loss = Zero
    /\ running_accuracy = Zero
    /\ h = NoHidden
    /\ val_h = NoHidden
    /\ n_batch_validation = 0
    /\ loss_validation = 0
    /\ accuracy_validation = Zero
    /\ hist = [loss |-> <<>>, accuracy |-> <<>>]
    /\ val_hist = [loss |-> <<>>, accuracy |-> <<>>]
    /\ early_stopping = IF a.activate_early_stopping
                        THEN EarlyStopping(a.earl_stopping_patience)
                        ELSE NoEarlyStopping
    /\ optimizer = [zero_grad |-> 0, step |-> 0]
    /\ scheduler_steps = <<>>
    /\ model_calls = [forward |-> 0, backward |-> 0]
    /\ batch_log = <<>>
    /\ processed = [train |-> 0, val |-> 0]
    /\ epoch_log = EmptyLog
    /\ plotted = <<>>

Raise(name) == pc' = "raised" /\ error' = name

\* Line 100: for ep in range(n_epochs)
EpochLoopContinues_Inclusive == ep <= args.n_epochs
EpochLoopContinues == ep < args.n_epochs

\* Lines 100-105: next value of ep, or the end of the epoch loop.
EpochStart ==
    /\ pc = "epoch"
    /\ IF EpochLoopContinues
       THEN /\ running_loss' = Zero
            /\ running_accuracy' = Zero
            /\ h' = IF args.model_type = "rnn"
                    THEN RNN_init_hidden(TrainedRNN, args.train_loader.batch_size)
                    ELSE h
            /\ pos' = 0
            /\ epoch_log' = EmptyLog
            /\ pc' = "train_iter"
       ELSE /\ pc' = "plot"
            /\ UNCHANGED <<running_loss, running_accuracy, h, pos, epoch_log>>
    /\ UNCHANGED <<args, error, training, ep, it, cur, output, val_h, n_batch_validation,
                   loss_validation, accuracy_validation, hist, val_hist, early_stopping,
                   optimizer, scheduler_steps, model_calls, batch_log, processed, plotted,
                   fwd>>

\* Line 107: enumerate(train_loader) yields the next (it, data) or is exhausted.
TrainIter ==
    /\ pc = "train_iter"
    /\ IF pos < NumBatches(args.train_loader)
       THEN /\ it' = pos
            /\ pos' = pos + 1
            /\ cur' = BatchLen(args.train_loader, pos)
            /\ batch_log' = <<>>
            /\ pc' = "train_unpack"
       ELSE /\ pc' = "scheduler"
            /\ UNCHANGED <<it, pos, cur, batch_log>>
    /\ UNCHANGED <<args, error, training, ep, output, running_loss, running_accuracy, h,
                   val_h, n_batch_validation, loss_validation, accuracy_validation, hist,
                   val_hist, early_stopping, optimizer, scheduler_steps, model_calls,
                   processed, epoch_log, plotted, fwd>>

\* Lines 109-116: unpack the batch according to model_type.
TrainUnpack ==
    /\ pc = "train_unpack"
    /\ IF args.model_type \in {"bert", "rnn", "cnn"}
       THEN pc' = "zero_grad" /\ error' = error
       ELSE Raise("ValueError")
    /\ UNCHANGED <<args, training, ep, it, pos, cur, output, running_loss,
                   running_accuracy, h, val_h, n_batch_validation, loss_validation,
                   accuracy_validation, hist, val_hist, early_stopping, optimizer,
                   scheduler_steps, model_calls, batch_log, processed, epoch_log, plotted,
                   fwd>>

\* Line 118: optimizer.zero_grad()
ZeroGrad ==
    /\ pc = "zero_grad"
    /\ optimizer' = [optimizer EXCEPT !.zero_grad = @ + 1]
    /\ batch_log' = Append(batch_log, "zero_grad")
    /\ pc' = "train_forward"
    /\ UNCHANGED <<args, error, training, ep, it, pos, cur, output, running_loss,
                   running_accuracy, h, val_h, n_batch_validation, loss_validation,
                   accuracy_validation, hist, val_hist, early_stopping, scheduler_steps,
                   model_calls, processed, epoch_log, plotted, fwd>>

\* The scores model(seq, ...) returns on a batch of b examples, and the hidden
\* pair it hands back (lines 123-131 and 180-188); out = Err when forward raises.
Forward(b, hidden) ==
    LET x == <<b, SeqLen>>
    IN  IF args.model_type = "rnn" THEN RNN_forward(TrainedRNN, x, hidden)
        ELSE IF args.model_type = "cnn"
        THEN [out |-> CNN_forward(TrainedCNN, x), hidden |-> hidden]
        ELSE [out |-> Camembert_forward(TrainedBert, x), hidden |-> hidden]

\* Lines 123-131: the training forward pass.
TrainForward ==
    /\ pc = "train_forward"
    /\ IF args.model_type \notin {"bert", "rnn", "cnn"}
       THEN Raise("ValueError") /\ UNCHANGED <<h, output, model_calls, batch_log>>
       ELSE LET r == Forward(cur, h)
            IN  /\ model_calls' = [model_calls EXCEPT !.forward = @ + 1]
                /\ batch_log' = Append(batch_log, "forward")
                /\ h' = r.hidden
                /\ IF r.out = Err
                   THEN Raise("RuntimeError") /\ output' = output
                   ELSE /\ \E wrong \in Misclassified(cur) :
                               output' = [shape |-> r.out, wrong |-> wrong]
                        /\ pc' = "train_loss"
                        /\ error' = error
    /\ UNCHANGED <<args, training, ep, it, pos, cur, running_loss, running_accuracy, val_h,
                   n_batch_validation, loss_validation, accuracy_validation, hist,
                   val_hist, early_stopping, optimizer, scheduler_steps, processed,
                   epoch_log, plotted, fwd>>

\* Lines 134-135: loss = criterion(output, labels); running_loss += loss
TrainLoss ==
    /\ pc = "train_loss"
    /\ LET loss == Criterion(output)
       IN  /\ running_loss' = RatAdd(running_loss, <<loss, 1>>)
           /\ epoch_log' = [epoch_log EXCEPT !.train_loss = @ (+) SetToBag({loss})]
    /\ batch_log' = Append(batch_log, "loss")
    /\ pc' = "backward"
    /\ UNCHANGED <<args, error, training, ep, it, pos, cur, output, running_accuracy, h,
                   val_h, n_batch_validation, loss_validation, accuracy_validation, hist,
                   val_hist, early_stopping, optimizer, scheduler_steps, model_calls,
                   processed, plotted, fwd>>

\* Line 137: loss.backward()
Backward ==
    /\ pc = "backward"
    /\ model_calls' = [model_calls EXCEPT !.backward = @ + 1]
    /\ batch_log' = Append(batch_log, "backward")
    /\ pc' = "optimizer_step"
    /\ UNCHANGED <<args, error, training, ep, it, pos, cur, output, running_loss,
                   running_accuracy, h, val_h, n_batch_validation, loss_validation,
                   accuracy_validation, hist, val_hist, early_stopping, optimizer,
                   scheduler_steps, processed, epoch_log, plotted, fwd>>

\* Line 140: optimizer.step()
OptimizerStep_Forgotten ==
    /\ pc = "optimizer_step"
    /\ pc' = "train_accuracy"
    /\ UNCHANGED <<args, error, training, ep, it, pos, cur, output, running_loss,
                   running_accuracy, h, val_h, n_batch_validation, loss_validation,
                   accuracy_validation, hist, val_hist, early_stopping, optimizer,
                   scheduler_steps, model_calls, batch_log, processed, epoch_log, plotted,
                   fwd>>

OptimizerStep ==
    /\ pc = "optimizer_step"
    /\ optimizer' = [optimizer EXCEPT !.step = @ + 1]
    /\ batch_log' = Append(batch_log, "step")
    /\ pc' = "train_accuracy"
    /\ UNCHANGED <<args, error, training, ep, it, pos, cur, output, running_loss,
                   running_accuracy, h, val_h, n_batch_validation, loss_validation,
                   accuracy_validation, hist, val_hist, early_stopping, scheduler_steps,
                   model_calls, processed, epoch_log, plotted, fwd>>

\* Lines 146 and 198: the guard of a print, n % every == 0, raises on a zero modulus.
PrintGuardRaises(every) == every = 0

\* Lines 143-147: accuracy of the batch, added to the sum; the guard of the print is
\* evaluated; the loop body ends.
TrainAccuracy ==
    /\ pc = "train_accuracy"
    /\ LET accuracy == Accuracy(output, cur)
       IN  /\ running_accuracy' = RatAdd(running_accuracy, accuracy)
           /\ epoch_log' = [epoch_log EXCEPT !.train_accuracy = @ (+) SetToBag({accuracy})]
    /\ IF PrintGuardRaises(args.print_every)
       THEN Raise("ZeroDivisionError") /\ processed' = processed
       ELSE /\ processed' = [processed EXCEPT !.train = @ + 1]
            /\ pc' = "train_iter"
            /\ error' = error
    /\ UNCHANGED <<args, training, ep, it, pos, cur, output, running_loss, h, val_h,
                   n_batch_validation, loss_validation, accuracy_validation, hist,
                   val_hist, early_stopping, optimizer, scheduler_steps, model_calls,
                   batch_log, plotted, fwd>>

\* Line 151: the argument of scheduler.step
SchedulerArgument_Mean == TensorDiv(running_loss, pos)
SchedulerArgument == running_loss

\* Lines 150-151: scheduler.step(running_loss) when a scheduler is given.
SchedulerStep ==
    /\ pc = "scheduler"
    /\ scheduler_steps' = IF args.has_scheduler
                          THEN Append(scheduler_steps, SchedulerArgument)
                          ELSE scheduler_steps
    /\ pc' = "train_history"
    /\ UNCHANGED <<args, error, training, ep, it, pos, cur, output, running_loss,
                   running_accuracy, h, val_h, n_batch_validation, loss_validation,
                   accuracy_validation, hist, val_hist, early_stopping, optimizer,
                   model_calls, batch_log, processed, epoch_log, plotted, fwd>>

\* Lines 154-155: the divisor of the training means
TrainMeanDivisor_BatchCount == it + 1
TrainMeanDivisor == it

\* Lines 154-155: hist gets running_loss/it and running_accuracy/it.  it is whatever
\* the last enumerate left in it; with no training batch in this epoch the sums are
\* still the Python int 0, and int/int raises on a zero divisor.
TrainHistory ==
    /\ pc = "train_history"
    /\ IF it = Unbound
       THEN Raise("UnboundLocalError") /\ hist' = hist
       ELSE IF pos = 0 /\ TrainMeanDivisor = 0
       THEN Raise("ZeroDivisionError") /\ hist' = hist
       ELSE /\ hist' = [loss     |-> Append(hist.loss,
                                            TensorDiv(running_loss, TrainMeanDivisor)),
                        accuracy |-> Append(hist.accuracy,
                                            TensorDiv(running_accuracy, TrainMeanDivisor))]
            /\ pc' = "eval"
            /\ error' = error
    /\ UNCHANGED <<args, training, ep, it, pos, cur, output, running_loss,
                   running_accuracy, h, val_h, n_batch_validation, loss_validation,
                   accuracy_validation, val_hist, early_stopping, optimizer,
                   scheduler_steps, model_calls, batch_log, processed, epoch_log, plotted,
                   fwd>>

\* Line 158: model.eval() sets model.training
EvalMode_Skipped == training
EvalMode == FALSE

\* Lines 158-164: model.eval(), the validation sums, the rnn's validation hidden state.
ModelEval ==
    /\ pc = "eval"
    /\ training' = EvalMode
    /\ n_batch_validation' = 0
    /\ loss_validation' = 0
    /\ accuracy_validation' = Zero
    /\ val_h' = IF args.model_type = "rnn"
                THEN RNN_init_hidden(TrainedRNN, args.val_loader.batch_size)
                ELSE val_h
    /\ pos' = 0
    /\ pc' = "val_iter"
    /\ UNCHANGED <<args, error, ep, it, cur, output, running_loss, running_accuracy, h,
                   hist, val_hist, early_stopping, optimizer, scheduler_steps, model_calls,
                   batch_log, processed, epoch_log, plotted, fwd>>

\* Line 166: enumerate(val_loader) yields the next (it, data) or is exhausted.
ValIter ==
    /\ pc = "val_iter"
    /\ IF pos < NumBatches(args.val_loader)
       THEN /\ it' = pos
            /\ pos' = pos + 1
            /\ cur' = BatchLen(args.val_loader, pos)
            /\ batch_log' = <<>>
            /\ pc' = "val_unpack"
       ELSE /\ pc' = "val_history"
            /\ UNCHANGED <<it, pos, cur, batch_log>>
    /\ UNCHANGED <<args, error, training, ep, output, running_loss, running_accuracy, h,
                   val_h, n_batch_validation, loss_validation, accuracy_validation, hist,
                   val_hist, early_stopping, optimizer, scheduler_steps, model_calls,
                   processed, epoch_log, plotted, fwd>>

\* Lines 169-178: unpack the validation batch according to model_type.
ValUnpack ==
    /\ pc = "val_unpack"
    /\ IF args.model_type \in {"bert", "rnn", "cnn"}
       THEN pc' = "val_forward" /\ error' = error
       ELSE Raise("ValueError")
    /\ UNCHANGED <<args, training, ep, it, pos, cur, output, running_loss,
                   running_accuracy, h, val_h, n_batch_validation, loss_validation,
                   accuracy_validation, hist, val_hist, early_stopping, optimizer,
                   scheduler_steps, model_calls, batch_log, processed, epoch_log, plotted,
                   fwd>>

\* Lines 180-188: the validation forward pass.
ValForward ==
    /\ pc = "val_forward"
    /\ IF args.model_type \notin {"bert", "rnn", "cnn"}
       THEN Raise("ValueError") /\ UNCHANGED <<val_h, output, model_calls, batch_log>>
       ELSE LET r == Forward(cur, val_h)
            IN  /\ model_calls' = [model_calls EXCEPT !.forward = @ + 1]
                /\ batch_log' = Append(batch_log, "forward")
                /\ val_h' = r.hidden
                /\ IF r.out = Err
                   THEN Raise("RuntimeError") /\ output' = output
                   ELSE /\ \E wrong \in Misclassified(cur) :
                               output' = [shape |-> r.out, wrong |-> wrong]
                        /\ pc' = "val_score"
                        /\ error' = error
    /\ UNCHANGED <<args, training, ep, it, pos, cur, running_loss, running_accuracy, h,
                   n_batch_validation, loss_validation, accuracy_validation, hist,
                   val_hist, early_stopping, optimizer, scheduler_steps, processed,
                   epoch_log, plotted, fwd>>

\* Lines 190-196: count the batch, add its loss (a float) and its accuracy.
ValScore ==
    /\ pc = "val_score"
    /\ n_batch_validation' = n_batch_validation + 1
    /\ LET _loss == Criterion(output)
           _accu == Accuracy(output, cur)
       IN  /\ loss_validation' = loss_validation + _loss
           /\ accuracy_validation' = RatAdd(accuracy_validation, _accu)
           /\ epoch_log' = [epoch_log EXCEPT !.val_loss = @ (+) SetToBag({_loss}),
                                             !.val_accuracy = @ (+) SetToBag({_accu})]
    /\ batch_log' = Append(batch_log, "loss")
    /\ processed' = [processed EXCEPT !.val = @ + 1]
    /\ pc' = "val_iter"
    /\ UNCHANGED <<args, error, training, ep, it, pos, cur, output, running_loss,
                   running_accuracy, h, val_h, hist, val_hist, early_stopping, optimizer,
                   scheduler_steps, model_calls, plotted, fwd>>

\* Lines 198-202: the guard of the validation print is evaluated; val_hist gets the
\* sums divided by n_batch_validation; the loss sum is a Python number, so an empty
\* validation loader raises on the division.
ValHistory ==
    /\ pc = "val_history"
    /\ IF PrintGuardRaises(args.print_validation_every) \/ n_batch_validation = 0
       THEN Raise("ZeroDivisionError") /\ val_hist' = val_hist
       ELSE /\ val_hist' =
                 [loss     |-> Append(val_hist.loss,
                                      Rat(loss_validation, n_batch_validation)),
                  accuracy |-> Append(val_hist.accuracy,
                                      TensorDiv(accuracy_validation, n_batch_validation))]
            /\ pc' = "early_stopping"
            /\ error' = error
    /\ UNCHANGED <<args, training, ep, it, pos, cur, output, running_loss,
                   running_accuracy, h, val_h, n_batch_validation, loss_validation,
                   accuracy_validation, hist, early_stopping, optimizer, scheduler_steps,
                   model_calls, batch_log, processed, epoch_log, plotted, fwd>>

\* Line 206: if early_stopping.early_stop: break
ShouldBreak_Never(es) == FALSE
ShouldBreak(es) == es.early_stop

\* Lines 204-208: early_stopping(loss_validation, model); break when it signals stop.
EarlyStop ==
    /\ pc = "early_stopping"
    /\ IF args.activate_early_stopping
       THEN LET es == EarlyStopping_call(early_stopping, loss_validation)
            IN  /\ early_stopping' = es
                /\ pc' = IF ShouldBreak(es) THEN "plot" ELSE "model_train"
       ELSE /\ early_stopping' = early_stopping
            /\ pc' = "model_train"
    /\ UNCHANGED <<args, error, training, ep, it, pos, cur, output, running_loss,
                   running_accuracy, h, val_h, n_batch_validation, loss_validation,
                   accuracy_validation, hist, val_hist, optimizer, scheduler_steps,
                   model_calls, batch_log, processed, epoch_log, plotted, fwd>>

\* Line 209: model.train() sets model.training
TrainMode_Skipped == training
TrainMode == TRUE

\* Line 209: model.train(), then the next value of ep.
ModelTrain ==
    /\ pc = "model_train"
    /\ training' = TrainMode
    /\ ep' = ep + 1
    /\ pc' = "epoch"
    /\ UNCHANGED <<args, error, it, pos, cur, output, running_loss, running_accuracy, h,
                   val_h, n_batch_validation, loss_validation, accuracy_validation, hist,
                   val_hist, early_stopping, optimizer, scheduler_steps, model_calls,
                   batch_log, processed, epoch_log, plotted, fwd>>

\* Lines 212-224: the two panels receive the four series.
Plot ==
    /\ pc = "plot"
    /\ plotted' = [ax1 |-> [train |-> hist.loss, validation |-> val_hist.loss],
                   ax2 |-> [train |-> hist.accuracy, validation |-> val_hist.accuracy]]
    /\ pc' = "done"
    /\ UNCHANGED <<args, error, training, ep, it, pos, cur, output, running_loss,
                   running_accuracy, h, val_h, n_batch_validation, loss_validation,
                   accuracy_validation, hist, val_hist, early_stopping, optimizer,
                   scheduler_steps, model_calls, batch_log, processed, epoch_log, fwd>>

FwdIdle == [pc |-> "idle"]

Init == (\E a \in Args : TrainInit(a)) /\ fwd = FwdIdle

Next ==
    \/ EpochStart
    \/ TrainIter
    \/ TrainUnpack
    \/ ZeroGrad
    \/ TrainForward
    \/ TrainLoss
    \/ Backward
    \/ OptimizerStep
    \/ TrainAccuracy
    \/ SchedulerStep
    \/ TrainHistory
    \/ ModelEval
    \/ ValIter
    \/ ValUnpack
    \/ ValForward
    \/ ValScore
    \/ ValHistory
    \/ EarlyStop
    \/ ModelTrain
    \/ Plot

Spec == Init /\ [][Next]_vars

\* ------------------------------------------- a forward call on a built model
\* The constructor arguments that decide shapes (vocabulary sizes do not).
RNNs == [output_size : 1..MaxDim, embedding_dim : {MaxDim}, hidden_dim : 1..MaxDim,
         n_layers : 1..MaxDim]

\* Lists of 1..MaxFilters integers drawn from S.
Lists(S) == UNION {[1..k -> S] : k \in 1..MaxFilters}

\* num_filters and filter_sizes of equal length, as CNN's docstring describes them.
CNNs == {m \in [embed_size : {MaxDim}, num_filters : Lists(1..MaxDim),
                filter_sizes : Lists(1..MaxSeqLen)] :
            Len(m.num_filters) = Len(m.filter_sizes)}

Camemberts == [hidden_size : 1..MaxDim]

\* A batch of encoded inputs: B examples of L tokens.
Inputs == {<<B, L>> : B \in 1..MaxBatchSize, L \in 1..MaxSeqLen}

FwdCalls ==
    {[pc |-> "built", cls |-> "RNN", m |-> m, x |-> x,
      hidden |-> RNN_init_hidden(m, hb), out |-> <<>>] :
        m \in RNNs, x \in Inputs, hb \in 1..MaxBatchSize}
    \cup
    {[pc |-> "built", cls |-> "CNN", m |-> m, x |-> x, hidden |-> NoHidden, out |-> <<>>] :
        m \in CNNs, x \in Inputs}
    \cup
    {[pc |-> "built", cls |-> "CamembertClassifier", m |-> m, x |-> x, hidden |-> NoHidden,
      out |-> <<>>] :
        m \in Camemberts, x \in Inputs}

Returned(out) == IF out = Err THEN "raised" ELSE "returned"

\* RNN.forward(x, hidden), lines 25-35
ForwardRNN ==
    /\ fwd.pc = "built" /\ fwd.cls = "RNN"
    /\ LET r == RNN_forward(fwd.m, fwd.x, fwd.hidden)
       IN  fwd' = [fwd EXCEPT !.pc = Returned(r.out), !.out = r.out, !.hidden = r.hidden]
    /\ UNCHANGED trainvars

\* CNN.forward(x), lines 56-65
ForwardCNN ==
    /\ fwd.pc = "built" /\ fwd.cls = "CNN"
    /\ LET out == CNN_forward(fwd.m, fwd.x)
       IN  fwd' = [fwd EXCEPT !.pc = Returned(out), !.out = out]
    /\ UNCHANGED trainvars

\* CamembertClassifier.forward(seq, attn_masks), lines 74-79
ForwardCamembert ==
    /\ fwd.pc = "built" /\ fwd.cls = "CamembertClassifier"
    /\ LET out == Camembert_forward(fwd.m, fwd.x)
       IN  fwd' = [fwd EXCEPT !.pc = Returned(out), !.out = out]
    /\ UNCHANGED trainvars

NoTraining ==
    [model_type |-> "cnn", n_epochs |-> 0, activate_early_stopping |-> FALSE,
     has_scheduler |-> FALSE, train_loader |-> [n |-> 0, batch_size |-> 1],
     val_loader |-> [n |-> 0, batch_size |-> 1], print_every |-> 1,
     print_validation_every |-> 1, earl_stopping_patience |-> 1]

InitFwd == TrainInit(NoTraining) /\ fwd \in FwdCalls

NextFwd ==
    \/ ForwardRNN
    \/ ForwardCNN
    \/ ForwardCamembert

SpecFwd == InitFwd /\ [][NextFwd]_vars

\* ------------------------------------------------------------------ claims
Supported == {"bert", "rnn", "cnn"}
Ended == pc \in {"done", "raised"}

IsPrefix(s, t) == Len(s) <= Len(t) /\ SubSeq(t, 1, Len(s)) = s
Last(s) == s[Len(s)]

RECURSIVE SumOver(_, _)
\* The sum of the naturals in bag B, each counted as often as it occurs.
SumOver(B, S) ==
    IF S = {} THEN 0
    ELSE LET e == CHOOSE x \in S : TRUE IN e * B[e] + SumOver(B, S \ {e})
BagSum(B) == SumOver(B, DOMAIN B)

RECURSIVE RatSumOver(_, _)
\* The sum of the rationals in bag B, each counted as often as it occurs.
RatSumOver(B, S) ==
    IF S = {} THEN Zero
    ELSE LET e == CHOOSE x \in S : TRUE
         IN  RatAdd(Rat(e[1] * B[e], e[2]), RatSumOver(B, S \ {e}))
BagRatSum(B) == RatSumOver(B, DOMAIN B)

\* The positions of train between the end of an epoch's training pass and the
\* end of the epoch.
AfterTrainingPass == {"scheduler", "train_history", "eval", "val_iter", "val_unpack",
                      "val_forward", "val_score", "val_history", "early_stopping",
                      "model_train"}
InValidation == {"val_iter", "val_unpack", "val_forward", "val_score", "val_history"}

\* C1: with an unsupported model_type and n_epochs >= 1, train ends by raising the
\* ValueError, and no forward pass, backward pass or optimizer step ran before it.
C1_UnsupportedRaisesValueError ==
    (args.model_type \notin Supported /\ args.n_epochs >= 1) =>
        /\ pc # "done"
        /\ pc = "raised" => error = "ValueError"
        /\ model_calls.forward = 0
        /\ model_calls.backward = 0
        /\ optimizer.step = 0

\* C2: both histories hold at most n_epochs entries at every point, exactly n_epochs
\* when the epoch loop ends without an early stop, and entries are only ever appended.
C2_HistoryLengths ==
    /\ [](/\ Len(hist.loss) <= args.n_epochs
          /\ Len(hist.accuracy) = Len(hist.loss)
          /\ Len(val_hist.loss) <= args.n_epochs
          /\ Len(val_hist.accuracy) = Len(val_hist.loss)
          /\ (pc \in {"plot", "done"} /\ ~early_stopping.early_stop) =>
                 /\ Len(hist.loss) = args.n_epochs
                 /\ Len(val_hist.loss) = args.n_epochs)
    /\ [][/\ IsPrefix(hist.loss, hist.loss') /\ Len(hist.loss') <= Len(hist.loss) + 1
          /\ IsPrefix(hist.accuracy, hist.accuracy')
          /\ IsPrefix(val_hist.loss, val_hist.loss')
          /\ Len(val_hist.loss') <= Len(val_hist.loss) + 1
          /\ IsPrefix(val_hist.accuracy, val_hist.accuracy')]_vars

C2_Witness ==
    /\ pc = "done"
    /\ ~early_stopping.early_stop
    /\ args.n_epochs = 2
    /\ Len(hist.loss) = 2
    /\ Len(val_hist.loss) = 2

\* C3: the monitor is called once per epoch, after the epoch's validation entries are
\* appended; once it signals stop at the end of epoch k = ep + 1 the loop is over, the
\* batches processed are those of k epochs, and the plot gets histories of k entries.
C3_EarlyStopAtEpochEnd ==
    /\ early_stopping.calls =
          IF ~args.activate_early_stopping THEN 0
          ELSE IF pc = "early_stopping" THEN Len(val_hist.loss) - 1
          ELSE Len(val_hist.loss)
    /\ early_stopping.early_stop =>
          /\ pc \in {"plot", "done"}
          /\ Len(hist.loss) = ep + 1
          /\ Len(val_hist.loss) = ep + 1
          /\ processed.train = (ep + 1) * NumBatches(args.train_loader)
          /\ processed.val = (ep + 1) * NumBatches(args.val_loader)
          /\ pc = "done" =>
                /\ Len(plotted.ax1.train) = ep + 1
                /\ Len(plotted.ax1.validation) = ep + 1
                /\ Len(plotted.ax2.train) = ep + 1
                /\ Len(plotted.ax2.validation) = ep + 1

C3_Witness ==
    /\ pc = "done"
    /\ early_stopping.early_stop
    /\ args.n_epochs = 3
    /\ ep + 1 = 2
    /\ Len(plotted.ax1.validation) = 2
    /\ processed.train = 2
    /\ processed.val = 2

\* C4: the validation means are the epoch's sums over the number of validation
\* batches; the training means are the epoch's sums over the number of training
\* batches minus one.
C4_MeanDivisors ==
    /\ pc = "eval" =>
          LET n == BagCardinality(epoch_log.train_loss)
          IN  /\ n = NumBatches(args.train_loader)
              /\ Last(hist.loss) = TensorDiv(<<BagSum(epoch_log.train_loss), 1>>, n - 1)
              /\ Last(hist.accuracy) =
                     TensorDiv(BagRatSum(epoch_log.train_accuracy), n - 1)
    /\ pc = "early_stopping" =>
          LET n == BagCardinality(epoch_log.val_loss)
          IN  /\ n = NumBatches(args.val_loader)
              /\ n = n_batch_validation
              /\ Last(val_hist.loss) = Rat(BagSum(epoch_log.val_loss), n)
              /\ Last(val_hist.accuracy) =
                     TensorDiv(BagRatSum(epoch_log.val_accuracy), n)

\* Two training batches with loss 1 each: the entry is 2/1, not the mean 2/2;
\* two validation batches with loss 1 each: the entry is 2/2.
C4_Witness ==
    /\ pc = "early_stopping"
    /\ BagCardinality(epoch_log.train_loss) = 2
    /\ BagSum(epoch_log.train_loss) = 2
    /\ Last(hist.loss) = <<2, 1>>
    /\ BagCardinality(epoch_log.val_loss) = 2
    /\ BagSum(epoch_log.val_loss) = 2
    /\ Last(val_hist.loss) = <<1, 1>>

\* C5: with model_type 'rnn', the hidden pair handed to every forward call has shape
\* (n_layers, size of the batch in hand, hidden_dim).
C5_HiddenMatchesBatch ==
    args.model_type = "rnn" =>
        /\ pc = "train_forward" => h = RNN_init_hidden(TrainedRNN, cur)
        /\ pc = "val_forward" => val_h = RNN_init_hidden(TrainedRNN, cur)

\* C6: forward of each variant on a batch of B examples returns scores of shape
\* (B, number of classes), for every constructor configuration (CNN: every pair of
\* lists of equal length) and every input the layers accept.
C6_ForwardShape ==
    (/\ fwd.pc \in {"returned", "raised"}
     /\ fwd.cls = "RNN" => fwd.hidden = RNN_init_hidden(fwd.m, fwd.x[1])
     /\ fwd.cls = "CNN" =>
           /\ Len(fwd.m.num_filters) = Len(fwd.m.filter_sizes)
           /\ \A i \in 1..Len(fwd.m.filter_sizes) : fwd.m.filter_sizes[i] <= fwd.x[2])
    => /\ fwd.pc = "returned"
       /\ fwd.out = <<fwd.x[1], IF fwd.cls = "RNN" THEN fwd.m.output_size ELSE NumClasses>>

\* C7: scheduler.step is called once per epoch whose training pass completes, after
\* the pass's last batch and before any validation batch, with the sum of the pass's
\* losses; never when scheduler is None.
C7_SchedulerOncePerEpoch ==
    /\ [](/\ ~args.has_scheduler => scheduler_steps = <<>>
          /\ (args.has_scheduler /\ pc # "raised") =>
                Len(scheduler_steps) =
                    IF pc \in AfterTrainingPass \ {"scheduler"} THEN ep + 1
                    ELSE IF early_stopping.early_stop THEN ep + 1
                    ELSE ep)
    /\ [][scheduler_steps' # scheduler_steps =>
             /\ args.has_scheduler
             /\ pc = "scheduler"
             /\ pos = NumBatches(args.train_loader)
             /\ processed.train = (ep + 1) * NumBatches(args.train_loader)
             /\ processed.val = ep * NumBatches(args.val_loader)
             /\ epoch_log.val_loss = EmptyBag
             /\ scheduler_steps' =
                    Append(scheduler_steps, <<BagSum(epoch_log.train_loss), 1>>)]_vars

C7_Witness ==
    /\ args.has_scheduler
    /\ pc = "done"
    /\ Len(scheduler_steps) = 2
    /\ scheduler_steps[2] = <<2, 1>>

\* The optimizer step of a training batch whose loop body has not run to its end:
\* the step is taken (line 140) before the accuracy and the guard of the print.
StepOfOpenBatch ==
    IF \/ pc = "train_accuracy"
       \/ pc = "raised" /\ args.print_every = 0 /\ Len(batch_log) = 5
    THEN 1 ELSE 0

\* C8: a training batch sees zero_grad, forward, loss, backward, step in that order,
\* one optimizer step each, taken right after its backward pass; validation sees
\* forward and loss only; so the optimizer steps taken are always one per training
\* batch carried through its step (the batches whose body ran to its end, and the
\* batch in hand once it has its step), and after a run that returns one per batch
\* of the training loader and epoch run.
C8_OneStepPerTrainingBatch ==
    /\ [](/\ \/ IsPrefix(batch_log, <<"zero_grad", "forward", "loss", "backward", "step">>)
             \/ IsPrefix(batch_log, <<"forward", "loss">>)
          /\ (pc \in InValidation /\ pos > 0) => IsPrefix(batch_log, <<"forward", "loss">>)
          /\ pc = "train_accuracy" =>
                batch_log = <<"zero_grad", "forward", "loss", "backward", "step">>
          /\ optimizer.step = processed.train + StepOfOpenBatch
          /\ pc \in {"plot", "done"} =>
                optimizer.step = Len(hist.loss) * NumBatches(args.train_loader))
    /\ [][(pc \in InValidation) =>
             /\ optimizer' = optimizer
             /\ model_calls'.backward = model_calls.backward]_vars
    /\ [][(optimizer' # optimizer /\ pc # "zero_grad") =>
             /\ pc = "optimizer_step"
             /\ batch_log = <<"zero_grad", "forward", "loss", "backward">>
             /\ optimizer' = [optimizer EXCEPT !.step = @ + 1]]_vars

C8_Witness ==
    /\ pc = "done"
    /\ processed.train = 4
    /\ processed.val = 2
    /\ optimizer.step = 4
    /\ model_calls.forward = 6

\* C9: every validation forward pass runs in evaluation mode and every training
\* forward pass in training mode: the model is in evaluation mode from the end of the
\* training pass to the end of the epoch, and in training mode otherwise.
C9_ModePerPhase ==
    /\ pc = "train_forward" => training
    /\ pc = "val_forward" => ~training
    /\ pc \in {"epoch", "train_iter", "train_unpack", "zero_grad", "train_forward",
               "train_loss", "backward", "optimizer_step", "train_accuracy",
               "scheduler", "train_history", "eval"} => training
    /\ pc \in InValidation \cup {"early_stopping", "model_train"} => ~training

C9_Witness == pc = "train_forward" /\ ep = 1 /\ training /\ model_calls.forward >= 2

\* C10: after a loop of n_epochs >= 1 epochs, the model is in training mode at the
\* plot when no early stop happened, and in evaluation mode when one did.
C10_ModeAtReturn ==
    (pc \in {"plot", "done"} /\ args.n_epochs >= 1) =>
        (training <=> ~early_stopping.early_stop)

C10_Witness == pc = "done" /\ early_stopping.early_stop /\ ~training

====
